---- MODULE Spec2Model ----
(***************************************************************************)
(* Model of the three Boost.Exception example programs                     *)
(*   boost_exception_example_1.cpp  plain throw, full dump                 *)
(*   boost_exception_example_2.cpp  BOOST_THROW_EXCEPTION, full dump       *)
(*   boost_exception_example_3.cpp  BOOST_THROW_EXCEPTION, selective lookup*)
(* and of the exception-enrichment mechanism they use (operator<<,         *)
(* get_error_info, diagnostic_information, enable_error_info).             *)
(*                                                                         *)
(* Spec     : the three programs, statement by statement, and beside them  *)
(*            the mechanism's operations applied to the exceptions the     *)
(*            programs' kinds give, with several field kinds and values.   *)
(* LiveSpec : Spec with the progress a sequential program has.             *)
(***************************************************************************)
EXTENDS Integers, Sequences, FiniteSets, TLC

VARIABLES
    prog,       \* which example program runs: 1, 2 or 3
    funcMacro,  \* the compiler supplies a current-function macro
    heapFree,   \* bytes the allocator can still hand out
    pc,         \* control location
    c,          \* the char* of allocate_memory / its callers: "unset", "null", "block"
    exc,        \* the exception object in flight or being handled, or NoExc
    attached,   \* history of the attach operations performed on exc
    lookup,     \* the last selective lookup and its result, or NoLookup
    err,        \* what was written to std::cerr, as a sequence of lines
    trace       \* the statements of interest executed so far

vars == <<prog, funcMacro, heapFree, pc, c, exc, attached, lookup, err, trace>>

---------------------------------------------------------------------------
(* Bounds *)

\* Width in bits of the modelled std::size_t.
SizeWidth == 2

\* Largest integer value a field of the integer-valued kind carries.
MaxInt == 1

\* Longest sequence of attach operations the mechanism specification applies.
MaxAttach == 3

\* std::numeric_limits<std::size_t>::max() at the modelled width.
NumericLimitsMax == 2^SizeWidth - 1

---------------------------------------------------------------------------
(* Type-erased values *)

StrVal(s) == [t |-> "string", s |-> s, n |-> 0]
IntVal(n) == [t |-> "int", s |-> "", n |-> n]

\* operator<< of a value to a stream.
Stringify(v) == IF v.t = "string" THEN v.s ELSE ToString(v.n)

---------------------------------------------------------------------------
(* Field kinds *)

\* typedef boost::error_info<struct tag_errmsg, std::string> errmsg_info;
\* example 3 names the tag errmsg_tag.
errmsg_info(p) ==
    [tag |-> IF p = 3 THEN "errmsg_tag" ELSE "tag_errmsg", type |-> "string"]

\* A field kind no program attaches, with a value type of its own.
retry_count_info == [tag |-> "tag_retry_count", type |-> "int"]

FieldKinds == {errmsg_info(1), errmsg_info(3), retry_count_info}

\* The string the handler of write_lots_of_zeros attaches.
WritingFailed == StrVal("writing lots of zeros failed")

ValuesOf(K) ==
    IF K.type = "string"
    THEN {WritingFailed, StrVal("allocation failed")}
    ELSE {IntVal(n) : n \in 0..MaxInt}

---------------------------------------------------------------------------
(* Exception kinds and exception objects *)

\* struct allocation_failed of example p.
allocation_failed(p) ==
    [name         |-> "struct allocation_failed",
     derivesBoost |-> p = 1,
     derivesStd   |-> TRUE,
     what         |-> IF p = 3 THEN "allocation_failed" ELSE "allocation failed"]

\* allocation_failed derived solely from boost::exception: it has no what().
allocation_failed_boost_only ==
    [name         |-> "struct allocation_failed",
     derivesBoost |-> TRUE,
     derivesStd   |-> FALSE,
     what         |-> ""]

NoExc == [none |-> TRUE]

UnknownSite == [known |-> FALSE, file |-> "", line |-> 0, hasFunc |-> FALSE, func |-> ""]

\* The source file and line of the raise in allocate_memory.
ThrowFile(p) ==
    CASE p = 1 -> "boost_exception_example_1.cpp"
      [] p = 2 -> "boost_exception_example_2.cpp"
      [] OTHER -> "boost_exception_example_3.cpp"

ThrowLine(p) == IF p = 1 THEN 46 ELSE 26

ThrowFunc == "char* allocate_memory(std::size_t)"

\* throw E(): the exception object is an E, carrying no fields.
PlainThrow(k) ==
    [enriched |-> k.derivesBoost,
     std      |-> k.derivesStd,
     wrapped  |-> FALSE,
     kind     |-> k.name,
     what     |-> k.what,
     site     |-> UnknownSite,
     entries  |-> <<>>]

\* Mutant: the exception is thrown as it is, whatever it derives from.
EnableErrorInfoNoWrap(k) == PlainThrow(k)


\* boost::enable_error_info: a kind not derived from boost::exception is
\* wrapped in a type derived from it and from boost::exception.
EnableErrorInfo(k) ==
    IF k.derivesBoost
    THEN PlainThrow(k)
    ELSE [PlainThrow(k) EXCEPT
            !.enriched = TRUE,
            !.wrapped  = TRUE,
            !.kind     = "class boost::exception_detail::clone_impl<struct "
                         \o "boost::exception_detail::error_info_injector<"
                         \o k.name \o "> >"]

\* BOOST_THROW_EXCEPTION(E()) at file(line) in function func.
BoostThrowException(k, file, line, func, hasFunc) ==
    [EnableErrorInfo(k) EXCEPT
        !.site = [known |-> TRUE, file |-> file, line |-> line,
                  hasFunc |-> hasFunc, func |-> IF hasFunc THEN func ELSE ""]]

\* Mutant: the handlers are written for a type the exception is not of.
CatchesOtherType(e) == FALSE


\* catch(boost::exception&) matches an object whose type derives from it.
CatchesBoostException(e) == e # NoExc /\ e.enriched

---------------------------------------------------------------------------
(* The attachment collection *)

Tags(entries) == {entries[i].tag : i \in 1..Len(entries)}

IndexOf(entries, tag) ==
    CHOOSE i \in 1..Len(entries) : entries[i].tag = tag

\* Mutant: an attach never overwrites, it appends another entry.
SetAppends(entries, K, v) == Append(entries, [tag |-> K.tag, value |-> v])


\* Insert, or overwrite the entry of a kind already present.
Set(entries, K, v) ==
    IF K.tag \in Tags(entries)
    THEN [entries EXCEPT ![IndexOf(entries, K.tag)].value = v]
    ELSE Append(entries, [tag |-> K.tag, value |-> v])

\* e << K(v)
Attach(e, K, v) == [e EXCEPT !.entries = Set(e.entries, K, v)]

NullPtr == [null |-> TRUE, value |-> StrVal("")]
PtrTo(v) == [null |-> FALSE, value |-> v]

\* Mutant: the lookup goes by value type, not by tag.
GetErrorInfoByType(e, K) ==
    IF ~e.enriched \/ ~\E i \in 1..Len(e.entries) : e.entries[i].value.t = K.type
    THEN NullPtr
    ELSE PtrTo(e.entries[CHOOSE i \in 1..Len(e.entries) :
                             e.entries[i].value.t = K.type].value)


\* boost::get_error_info<K>(e): null if e is no boost::exception or holds
\* no entry of kind K (or one of another value type).
GetErrorInfo(e, K) ==
    IF ~e.enriched \/ K.tag \notin Tags(e.entries)
    THEN NullPtr
    ELSE LET v == e.entries[IndexOf(e.entries, K.tag)].value
         IN  IF v.t = K.type THEN PtrTo(v) ELSE NullPtr

---------------------------------------------------------------------------
(* The full dump *)

ThrowSiteLine(site) ==
    IF ~site.known
    THEN "Throw location unknown (consider using BOOST_THROW_EXCEPTION)"
    ELSE site.file \o "(" \o ToString(site.line) \o ")"
         \o (IF site.hasFunc THEN ": Throw in function " \o site.func ELSE "")

KindLine(e) == "Dynamic exception type: " \o e.kind

WhatLine(e) == "std::exception::what: " \o e.what

FieldLine(entry) == "[struct " \o entry.tag \o " *] = " \o Stringify(entry.value)

HeaderLines(e) ==
    <<ThrowSiteLine(e.site), KindLine(e)>>
    \o (IF e.std THEN <<WhatLine(e)>> ELSE <<>>)

\* Mutant: the fields are written before the header.
DiagnosticInformationFieldsFirst(e) ==
    [i \in 1..Len(e.entries) |-> FieldLine(e.entries[i])] \o HeaderLines(e)


\* boost::diagnostic_information(e)
DiagnosticInformation(e) ==
    HeaderLines(e) \o [i \in 1..Len(e.entries) |-> FieldLine(e.entries[i])]

---------------------------------------------------------------------------
(* The three programs *)

NoLookup == [done |-> FALSE, tag |-> "", at |-> 0, result |-> NullPtr]

AttachOp(K, v) == [tag |-> K.tag, value |-> v]

\* Mutant: every example raises through BOOST_THROW_EXCEPTION.
RaiseAlwaysHelper(p, hasFunc) ==
    BoostThrowException(allocation_failed(p), ThrowFile(p), ThrowLine(p),
                        ThrowFunc, hasFunc)


\* The exception the failing branch of allocate_memory raises in example p:
\* a plain throw in example 1, BOOST_THROW_EXCEPTION in examples 2 and 3.
Raise(p, hasFunc) ==
    IF p = 1
    THEN PlainThrow(allocation_failed(p))
    ELSE BoostThrowException(allocation_failed(p), ThrowFile(p), ThrowLine(p),
                             ThrowFunc, hasFunc)

\* Mutant: the handler attaches the exception's what() text instead.
WriteHandlerWrongValue(p, e) == Attach(e, errmsg_info(p), StrVal("allocation failed"))


\* Mutant: the handler throws a new exception instead of annotating the one
\* it caught.
WriteHandlerThrowsNew(p, e) ==
    Attach(BoostThrowException(allocation_failed(p), ThrowFile(p), 61,
                               "char* write_lots_of_zeros()", TRUE),
           errmsg_info(p), WritingFailed)


\* Mutant: the handler rethrows without attaching anything.
WriteHandlerNoAttach(p, e) == e


\* The body of the handler of write_lots_of_zeros, before its rethrow.
WriteHandler(p, e) == Attach(e, errmsg_info(p), WritingFailed)

\* The field kind main's handler of example 3 looks up.
MainLookupKind(p) == errmsg_info(p)

\* new(std::nothrow) char[size]: null when the heap cannot satisfy it.
NewNothrow(size, free) == IF size <= free THEN "block" ELSE "null"

\* A program starts in main, on some compiler and with some amount of free
\* memory.
ProgramInit ==
    /\ prog \in 1..3
    /\ funcMacro \in BOOLEAN
    /\ heapFree \in 0..NumericLimitsMax
    /\ pc = "main_try"
    /\ c = "unset"
    /\ exc = NoExc
    /\ attached = <<>>
    /\ lookup = NoLookup
    /\ err = <<>>
    /\ trace = <<>>

\* main: char* c = write_lots_of_zeros();
MainCallWrite ==
    /\ pc = "main_try"
    /\ pc' = "wlz_try"
    /\ UNCHANGED <<prog, funcMacro, heapFree, c, exc, attached, lookup, err, trace>>

\* write_lots_of_zeros: allocate_memory(numeric_limits<size_t>::max())
WriteCallAllocate ==
    /\ pc = "wlz_try"
    /\ pc' = "alloc_new"
    /\ UNCHANGED <<prog, funcMacro, heapFree, c, exc, attached, lookup, err, trace>>

\* allocate_memory: char* c = new(std::nothrow) char[size];
AllocateNew ==
    /\ pc = "alloc_new"
    /\ c' = NewNothrow(NumericLimitsMax, heapFree)
    /\ heapFree' = IF c' = "block" THEN heapFree - NumericLimitsMax ELSE heapFree
    /\ pc' = "alloc_check"
    /\ UNCHANGED <<prog, funcMacro, exc, attached, lookup, err, trace>>

\* allocate_memory: if (!c) throw ...; control leaves for the enclosing try
\* block of write_lots_of_zeros.
AllocateThrow ==
    /\ pc = "alloc_check"
    /\ c = "null"
    /\ exc' = Raise(prog, funcMacro)
    /\ trace' = Append(trace, "throw")
    /\ pc' = "unwind_wlz"
    /\ UNCHANGED <<prog, funcMacro, heapFree, c, attached, lookup, err>>

\* allocate_memory: return c;
AllocateReturn ==
    /\ pc = "alloc_check"
    /\ c # "null"
    /\ pc' = "wlz_fill"
    /\ UNCHANGED <<prog, funcMacro, heapFree, c, exc, attached, lookup, err, trace>>

\* write_lots_of_zeros: std::fill_n(c, max, 0);
WriteFill ==
    /\ pc = "wlz_fill"
    /\ trace' = Append(trace, "fill_n")
    /\ pc' = "wlz_return"
    /\ UNCHANGED <<prog, funcMacro, heapFree, c, exc, attached, lookup, err>>

\* write_lots_of_zeros: return c;
WriteReturn ==
    /\ pc = "wlz_return"
    /\ pc' = "main_delete"
    /\ UNCHANGED <<prog, funcMacro, heapFree, c, exc, attached, lookup, err, trace>>

\* main: delete[] c;
MainDelete ==
    /\ pc = "main_delete"
    /\ heapFree' = heapFree + NumericLimitsMax
    /\ c' = "unset"
    /\ trace' = Append(trace, "delete")
    /\ pc' = "main_end"
    /\ UNCHANGED <<prog, funcMacro, exc, attached, lookup, err>>

\* write_lots_of_zeros: catch(boost::exception& e); an exception the
\* handler does not match passes through to the caller.
WriteCatch ==
    /\ pc = "unwind_wlz"
    /\ IF CatchesBoostException(exc)
       THEN /\ pc' = "wlz_handler"
            /\ trace' = Append(trace, "catch_wlz")
       ELSE /\ pc' = "unwind_main"
            /\ trace' = trace
    /\ UNCHANGED <<prog, funcMacro, heapFree, c, exc, attached, lookup, err>>

\* write_lots_of_zeros: e << errmsg_info("writing lots of zeros failed");
WriteAttach ==
    /\ pc = "wlz_handler"
    /\ exc' = WriteHandler(prog, exc)
    /\ attached' = Append(attached, AttachOp(errmsg_info(prog), WritingFailed))
    /\ trace' = Append(trace, "attach")
    /\ pc' = "wlz_rethrow"
    /\ UNCHANGED <<prog, funcMacro, heapFree, c, lookup, err>>

\* write_lots_of_zeros: throw; rethrows the exception object being handled.
WriteRethrow ==
    /\ pc = "wlz_rethrow"
    /\ trace' = Append(trace, "rethrow")
    /\ pc' = "unwind_main"
    /\ UNCHANGED <<prog, funcMacro, heapFree, c, exc, attached, lookup, err>>

\* main: catch(boost::exception& e); an exception no handler matches
\* escapes main and the process terminates.
MainCatch ==
    /\ pc = "unwind_main"
    /\ IF CatchesBoostException(exc)
       THEN /\ pc' = "main_handler"
            /\ trace' = Append(trace, "catch_main")
       ELSE /\ pc' = "terminated"
            /\ trace' = Append(trace, "terminate")
    /\ UNCHANGED <<prog, funcMacro, heapFree, c, exc, attached, lookup, err>>

\* Mutant: reporting consumes the fields of the exception.
MainReportConsumes ==
    /\ pc = "main_handler"
    /\ lookup' = lookup
    /\ err' = err \o DiagnosticInformation(exc)
    /\ exc' = [exc EXCEPT !.entries = <<>>]
    /\ pc' = "main_end"
    /\ trace' = Append(trace, "report")
    /\ UNCHANGED <<prog, funcMacro, heapFree, c, attached>>


\* main's handler. Examples 1 and 2:
\*   std::cerr << boost::diagnostic_information(e);
\* example 3:
\*   std::cerr << *boost::get_error_info<errmsg_info>(e);
\* Dereferencing a null result is undefined: the program may stop there or
\* go on having written anything or nothing.
MainReport ==
    /\ pc = "main_handler"
    /\ IF prog = 3
       THEN LET p == GetErrorInfo(exc, MainLookupKind(prog))
            IN  /\ lookup' = [done |-> TRUE, tag |-> MainLookupKind(prog).tag,
                              at |-> Len(attached), result |-> p]
                /\ IF p.null
                   THEN /\ pc' \in {"crashed", "main_end"}
                        /\ err' \in {err, Append(err, "")}
                   ELSE /\ pc' = "main_end"
                        /\ err' = Append(err, Stringify(p.value))
       ELSE /\ lookup' = lookup
            /\ err' = err \o DiagnosticInformation(exc)
            /\ pc' = "main_end"
    /\ trace' = Append(trace, "report")
    /\ UNCHANGED <<prog, funcMacro, heapFree, c, exc, attached>>

\* main: the end of the try statement; main returns and a handled exception
\* is destroyed.
MainReturn ==
    /\ pc = "main_end"
    /\ exc' = NoExc
    /\ trace' = Append(trace, "exit")
    /\ pc' = "done"
    /\ UNCHANGED <<prog, funcMacro, heapFree, c, attached, lookup, err>>

---------------------------------------------------------------------------
(* The mechanism on its own: attach, selective lookup and full dump applied *)
(* in any order to a caught exception of one of the programs' kinds, raised *)
(* by a plain throw or through BOOST_THROW_EXCEPTION.                       *)

MechInit ==
    /\ prog \in 1..3
    /\ funcMacro \in BOOLEAN
    /\ heapFree = 0
    /\ pc = "mech"
    /\ c = "null"
    /\ exc \in {PlainThrow(allocation_failed(prog)),
                PlainThrow(allocation_failed_boost_only),
                BoostThrowException(allocation_failed(prog), ThrowFile(prog),
                                    ThrowLine(prog), ThrowFunc, funcMacro)}
    /\ attached = <<>>
    /\ lookup = NoLookup
    /\ err = <<>>
    /\ trace = <<>>

\* e << K(v), which only a boost::exception offers.
MechAttach ==
    /\ pc = "mech"
    /\ exc.enriched
    /\ Len(attached) < MaxAttach
    /\ \E K \in FieldKinds : \E v \in ValuesOf(K) :
          /\ exc' = Attach(exc, K, v)
          /\ attached' = Append(attached, AttachOp(K, v))
    /\ UNCHANGED <<prog, funcMacro, heapFree, pc, c, lookup, err, trace>>

\* boost::get_error_info<K>(e)
MechLookup ==
    /\ pc = "mech"
    /\ \E K \in FieldKinds :
          lookup' = [done |-> TRUE, tag |-> K.tag, at |-> Len(attached),
                     result |-> GetErrorInfo(exc, K)]
    /\ UNCHANGED <<prog, funcMacro, heapFree, pc, c, exc, attached, err, trace>>

\* boost::diagnostic_information(e) of a boost::exception, written out.
MechDump ==
    /\ pc = "mech"
    /\ exc.enriched
    /\ err' = DiagnosticInformation(exc)
    /\ pc' = "mech_dumped"
    /\ UNCHANGED <<prog, funcMacro, heapFree, c, exc, attached, lookup, trace>>

Init == ProgramInit \/ MechInit

ProgramNext ==
    \/ MainCallWrite
    \/ WriteCallAllocate
    \/ AllocateNew
    \/ AllocateThrow
    \/ AllocateReturn
    \/ WriteFill
    \/ WriteReturn
    \/ MainDelete
    \/ WriteCatch
    \/ WriteAttach
    \/ WriteRethrow
    \/ MainCatch
    \/ MainReport
    \/ MainReturn

MechNext ==
    \/ MechAttach
    \/ MechLookup
    \/ MechDump

Next == ProgramNext \/ MechNext

Spec == Init /\ [][Next]_vars

\* The three programs alone; a sequential program that can take a step
\* takes it.
LiveSpec == ProgramInit /\ [][ProgramNext]_vars /\ WF_vars(ProgramNext)

---------------------------------------------------------------------------
(* What the history of attach operations says the collection should hold *)

Prefix(h, n) == SubSeq(h, 1, n)

HistTags(h) == {h[i].tag : i \in 1..Len(h)}

Range(q) == {q[i] : i \in 1..Len(q)}

\* The value of the most recent operation of the history on the tag.
LastValue(h, tag) ==
    LET i == CHOOSE j \in 1..Len(h) :
                 /\ h[j].tag = tag
                 /\ \A k \in (j+1)..Len(h) : h[k].tag # tag
    IN  h[i].value

\* The tags of the history in the order of their first operation.
RECURSIVE FirstOrder(_)
FirstOrder(h) ==
    IF h = <<>>
    THEN <<>>
    ELSE LET r == FirstOrder(Prefix(h, Len(h) - 1))
             t == h[Len(h)].tag
         IN  IF t \in Range(r) THEN r ELSE Append(r, t)

InProgram == pc \notin {"mech", "mech_dumped"}

Live == exc # NoExc

\* What of an exception object is not its attachment collection.
Identity(e) == [e EXCEPT !.entries = <<>>]

---------------------------------------------------------------------------
(* Claims *)

\* C1: a selective lookup of a field kind K made after K was attached
\* returns a non-null result holding exactly the value of the most recent
\* attach of K (same type tag, same content), however many attaches of other
\* kinds came before or after it.
C1_AttachLookupRoundTrip ==
    (lookup.done /\ lookup.tag \in HistTags(Prefix(attached, lookup.at)))
        => lookup.result = PtrTo(LastValue(Prefix(attached, lookup.at), lookup.tag))

\* C1 witness: a lookup of K that found K's value although a different kind
\* was attached after K.
C1_Witness ==
    /\ lookup.done
    /\ lookup.at >= 2
    /\ attached[lookup.at].tag # lookup.tag
    /\ lookup.tag \in HistTags(Prefix(attached, lookup.at))
    /\ ~lookup.result.null
    /\ lookup.result.value = LastValue(Prefix(attached, lookup.at), lookup.tag)

\* The lines of a dump that render a field of the tag.
LinesOf(dump, tag) ==
    {i \in 1..Len(dump) :
        \E K \in FieldKinds : \E v \in ValuesOf(K) :
            K.tag = tag /\ dump[i] = FieldLine([tag |-> tag, value |-> v])}

\* A full dump was written and the exception it rendered is still there.
Dumped ==
    \/ pc = "mech_dumped"
    \/ pc = "main_end" /\ prog \in {1, 2} /\ Live

\* C2: the attachment collection holds exactly one entry for every field
\* kind ever attached and none for any other, each entry holds the value of
\* the most recent attach of its kind, and a full dump shows exactly one
\* line for each attached kind.
C2_LastWriteWins ==
    Live =>
        /\ Cardinality(Tags(exc.entries)) = Len(exc.entries)
        /\ Tags(exc.entries) = HistTags(attached)
        /\ \A i \in 1..Len(exc.entries) :
              exc.entries[i].value = LastValue(attached, exc.entries[i].tag)
        /\ Dumped =>
              \A t \in HistTags(attached) : Cardinality(LinesOf(err, t)) = 1

\* C2 witness: a dump of an exception to which one kind was attached twice
\* with different values.
C2_Witness ==
    /\ pc = "mech_dumped"
    /\ \E i, j \in 1..Len(attached) :
          /\ i < j
          /\ attached[i].tag = attached[j].tag
          /\ attached[i].value # attached[j].value

\* C3, the result: a lookup of a kind that was not attached returns null.
C3_AbsentResult ==
    (lookup.done /\ lookup.tag \notin HistTags(Prefix(attached, lookup.at)))
        => lookup.result = NullPtr

\* C3, the frame: a lookup changes neither the exception nor what was
\* attached to it.
C3_LookupReadsOnly ==
    lookup' # lookup => (exc' = exc /\ attached' = attached)

\* C3: a selective lookup of a field kind never attached returns the absent
\* result, whether the caught value carries no fields, carries other kinds
\* (also one of the same value type) or is no boost::exception, and the
\* lookup leaves the exception as it was.
C3_AbsentLookup == [] C3_AbsentResult /\ [][C3_LookupReadsOnly]_vars

\* C3 witness: a null lookup of errmsg_tag on an exception carrying
\* tag_errmsg, a different kind with the same value type.
C3_Witness ==
    /\ lookup.done
    /\ lookup.tag = errmsg_info(3).tag
    /\ errmsg_info(1).tag \in HistTags(Prefix(attached, lookup.at))
    /\ errmsg_info(3).tag \notin HistTags(Prefix(attached, lookup.at))
    /\ lookup.result.null


\* C4, the state part: while a program's exception is in flight or being
\* handled, its kind, message, throw site and capability are those it was
\* raised with.
C4_SameAsRaised ==
    (InProgram /\ Live) => Identity(exc) = Identity(Raise(prog, funcMacro))

\* C4, the step part: no step turns the exception into another one, and the
\* attach step of write_lots_of_zeros changes nothing of the program's state
\* but the attachment collection (and the record of it).
C4_StepKeepsIdentity ==
    /\ (Live /\ exc' # NoExc) => Identity(exc') = Identity(exc)
    /\ pc = "wlz_handler" =>
          /\ exc' # NoExc
          /\ <<prog, funcMacro, heapFree, c, lookup, err>>'
                = <<prog, funcMacro, heapFree, c, lookup, err>>

\* C4: identity is preserved along the unwind path: from the raise in
\* allocate_memory to main's handler the exception keeps its base identity,
\* conventional message and throw-site metadata, and the catch / attach /
\* rethrow of write_lots_of_zeros changes only the attachment collection.
C4_IdentityPreserved == [] C4_SameAsRaised /\ [][C4_StepKeepsIdentity]_vars

\* C4 witness: main of example 2 has caught the exception, which carries
\* the field attached on the way.
C4_Witness ==
    /\ pc = "main_handler"
    /\ prog = 2
    /\ Len(exc.entries) = 1
    /\ Identity(exc) = Identity(Raise(2, funcMacro))

\* C5: the attachment collection never shrinks: every step that keeps the
\* exception keeps every field kind it carries (and the number of entries
\* does not go down), and the steps that read it, the report of main's
\* handler, a selective lookup and a full dump, leave it as it is.
C5_StepNeverShrinks ==
    /\ (Live /\ exc' # NoExc) =>
          /\ Tags(exc.entries) \subseteq Tags(exc'.entries)
          /\ Len(exc.entries) <= Len(exc'.entries)
    /\ (pc = "main_handler" \/ lookup' # lookup \/ err' # err) => exc' = exc

C5_NeverShrinks == [][C5_StepNeverShrinks]_vars

\* C5 witness: main's handler has reported and the exception still carries
\* the field attached in write_lots_of_zeros.
C5_Witness ==
    /\ pc = "main_end"
    /\ Live
    /\ Len(trace) > 0
    /\ trace[Len(trace)] = "report"
    /\ Tags(exc.entries) = {errmsg_info(prog).tag}

\* The field lines the history of attach operations calls for.
ExpectedFieldLines(h) ==
    [i \in 1..Len(FirstOrder(h)) |->
        FieldLine([tag |-> FirstOrder(h)[i], value |-> LastValue(h, FirstOrder(h)[i])])]

\* The output the doc comment of example 1 gives for example 1.
Example1Output ==
    <<"Throw location unknown (consider using BOOST_THROW_EXCEPTION)",
      "Dynamic exception type: struct allocation_failed",
      "std::exception::what: allocation failed",
      "[struct tag_errmsg *] = writing lots of zeros failed">>

\* C6: a full dump is the throw-site line (or the unknown-location line),
\* the exception kind, the what() line exactly when the kind derives from
\* std::exception, and then one line per attached field kind in the order of
\* the kinds' first attach, holding the kind's last value; with no fields it
\* is the header alone; example 1 writes the four lines its doc comment shows.
C6_DumpLayout ==
    Dumped =>
        /\ Len(err) = (IF exc.std THEN 3 ELSE 2) + Cardinality(HistTags(attached))
        /\ err[1] = ThrowSiteLine(exc.site)
        /\ err[2] = KindLine(exc)
        /\ exc.std => err[3] = WhatLine(exc)
        /\ SubSeq(err, (IF exc.std THEN 4 ELSE 3), Len(err)) = ExpectedFieldLines(attached)
        /\ (InProgram /\ prog = 1) => err = Example1Output

\* C6 witness: a dump of an exception to which a first kind was attached,
\* then a second, then the first again with another value.
C6_Witness ==
    /\ pc = "mech_dumped"
    /\ Len(attached) = 3
    /\ attached[1].tag # attached[2].tag
    /\ attached[3].tag = attached[1].tag
    /\ attached[3].value # attached[1].value
    /\ Len(err) = (IF exc.std THEN 5 ELSE 4)

\* The handlers a program's exception has gone through match it.
AllHandlersMatched ==
    /\ pc \notin {"terminated", "crashed"}
    /\ pc \in {"wlz_handler", "wlz_rethrow", "unwind_main", "main_handler", "main_end"}
          => "catch_wlz" \in Range(trace)
    /\ pc \in {"main_handler", "main_end"} => "catch_main" \in Range(trace)
    /\ pc \in {"wlz_rethrow", "unwind_main", "main_handler", "main_end"}
          => ~GetErrorInfo(exc, errmsg_info(prog)).null

\* C7: an exception raised through BOOST_THROW_EXCEPTION is a
\* boost::exception: catch(boost::exception&) matches it, in the programs
\* both handlers do match it and the attach takes effect, and its what() is
\* the original kind's; it is of a wrapper type exactly when the original
\* kind does not derive from boost::exception, and otherwise of the
\* original type.
C7_AutoWrapping ==
    (Live /\ exc.site.known) =>
        /\ exc.enriched
        /\ CatchesBoostException(exc)
        /\ exc.std
        /\ exc.what = allocation_failed(prog).what
        /\ exc.wrapped <=> ~allocation_failed(prog).derivesBoost
        /\ exc.kind = allocation_failed(prog).name <=> ~exc.wrapped
        /\ InProgram => AllHandlersMatched

\* C7 witness: main of example 2 has caught the wrapped allocation_failed
\* with the field attached to it.
C7_Witness ==
    /\ pc = "main_handler"
    /\ prog = 2
    /\ exc.wrapped
    /\ exc.site.known
    /\ ~allocation_failed(prog).derivesBoost
    /\ ~GetErrorInfo(exc, errmsg_info(prog)).null

\* The throw site BOOST_THROW_EXCEPTION records in allocate_memory.
HelperSite(p, hasFunc) ==
    [known |-> TRUE, file |-> ThrowFile(p), line |-> ThrowLine(p),
     hasFunc |-> hasFunc, func |-> IF hasFunc THEN ThrowFunc ELSE ""]

\* C8, the state part: example 1's exception has no throw site, the
\* exception of examples 2 and 3 has the file and line of the raise in
\* allocate_memory and, when the compiler supports it, the function name.
C8_SiteAsRaised ==
    (InProgram /\ Live) =>
        /\ prog = 1 => (~exc.site.known /\ exc.site = UnknownSite)
        /\ prog \in {2, 3} =>
              /\ exc.site = HelperSite(prog, funcMacro)
              /\ exc.site.line = 26
              /\ exc.site.hasFunc <=> funcMacro

\* C8, the step part: no step that keeps the exception changes its throw
\* site.
C8_StepKeepsSite == (Live /\ exc' # NoExc) => exc'.site = exc.site

\* C8: throw-site metadata is present exactly when the raise went through
\* BOOST_THROW_EXCEPTION, it is the raise point in allocate_memory, and no
\* attach sets, clears or changes it.
C8_ThrowSite == [] C8_SiteAsRaised /\ [][C8_StepKeepsSite]_vars

\* C8 witness: main of example 3 has caught the exception with its field
\* and its throw site, function name included.
C8_Witness ==
    /\ pc = "main_handler"
    /\ prog = 3
    /\ funcMacro
    /\ exc.site.known
    /\ exc.site.hasFunc
    /\ Len(exc.entries) = 1


\* A handler of a program holds the exception, caught as boost::exception&.
CaughtAsBoostException ==
    /\ InProgram
    /\ Live
    /\ pc \in {"wlz_handler", "wlz_rethrow", "main_handler"}

\* C9 as stated: an exception raised through BOOST_THROW_EXCEPTION and
\* caught as boost::exception always yields a non-null lookup of
\* errmsg_info.
C9_HelperImpliesNonNull ==
    (CaughtAsBoostException /\ exc.site.known)
        => ~GetErrorInfo(exc, errmsg_info(prog)).null

\* C9 as amended: in main's handler, which every failing run reaches only
\* through the attach of write_lots_of_zeros, the lookup of errmsg_info is
\* non-null and holds the attached string; example 3 dereferences a non-null
\* result, writes that string and never stops in its handler. Before the
\* attach the same exception, raised through the helper, holds no
\* errmsg_info.
C9_NonNullAfterAttach ==
    /\ InProgram => pc \notin {"crashed", "terminated"}
    /\ pc = "main_handler" =>
          GetErrorInfo(exc, errmsg_info(prog)) = PtrTo(WritingFailed)
    /\ pc = "wlz_handler" => GetErrorInfo(exc, errmsg_info(prog)).null
    /\ (InProgram /\ lookup.done) =>
          /\ prog = 3
          /\ lookup.result = PtrTo(WritingFailed)
          /\ err = <<"writing lots of zeros failed">>

\* C9 witness: example 3 has looked errmsg_info up in main's handler and
\* written it.
C9_Witness ==
    /\ prog = 3
    /\ pc = "main_end"
    /\ lookup.done
    /\ ~lookup.result.null
    /\ err = <<"writing lots of zeros failed">>

FailureTrace ==
    <<"throw", "catch_wlz", "attach", "rethrow", "catch_main", "report", "exit">>

SuccessTrace == <<"fill_n", "delete", "exit">>

IsPrefix(q, r) == Len(q) <= Len(r) /\ q = Prefix(r, Len(q))

\* C10, the order: what a program has executed is an initial part of raise,
\* catch in write_lots_of_zeros, attach, rethrow, catch in main, report,
\* exit when the allocation failed (each once, and neither fill_n nor
\* delete[]), the exception never escapes main, and the handler never stops
\* the program.
C10_Order ==
    /\ pc \notin {"terminated", "crashed"}
    /\ IsPrefix(trace, IF c = "null" THEN FailureTrace ELSE SuccessTrace)
    /\ Len(attached) <= 1
    /\ "report" \in Range(trace) => Len(attached) = 1

\* C10: propagation runs to completion in the order raise, annotate,
\* report: a failed allocation leads to the program's normal end with
\* exactly that sequence of steps behind it.
C10_RunsToCompletion ==
    /\ [] C10_Order
    /\ (pc = "alloc_check" /\ c = "null") ~> (pc = "done" /\ trace = FailureTrace)

\* C10 witness: a program has ended after a failed allocation.
C10_Witness ==
    /\ pc = "done"
    /\ c = "null"
    /\ trace = FailureTrace
    /\ exc = NoExc

====
